---- MODULE Spec2Model ----
(***************************************************************************)
(* Model of the BGP orchestrator core: the peering catalog and its         *)
(* mutation handlers (app/api/v1/routes/bgp_peerings.py), the rule-based   *)
(* conflict detector (core/conflict_detector.py) and the circuit breaker   *)
(* (utils/circuit_breaker.py).                                             *)
(***************************************************************************)
EXTENDS Integers, Sequences, FiniteSets, TLC

(***************************************************************************)
(* Bounds of the model.                                                    *)
(***************************************************************************)
MaxPeerings == 2      \* rows ever inserted into bgp_peerings
MaxBatch == 2         \* candidates of one bulk-create request

(***************************************************************************)
(* Value domains of the peering fields that the detection rules read.      *)
(***************************************************************************)
Devices == {"r1"}
PrivateIps == {"10.0.0.1"}
PublicIps == {"8.8.8.8"}
OtherPublicIps == {"1.1.1.1"}
SessionIps == PrivateIps \cup PublicIps
ValidIps == SessionIps \cup OtherPublicIps
InvalidIps == {"not-an-ip"}
LocalAsn == 65000
PeerAsns == {65000, 65001, 65002}
Statuses == {"active", "pending", "disabled"}
NoId == 0             \* id of an object that was never flushed (None)

\* ipaddress.ip_address(s): parses, or raises ValueError
IpParses(ip) == ip \in ValidIps
\* IPv4Address.is_private
IsPrivate(ip) == ip \in PrivateIps

(***************************************************************************)
(* Sequence helpers.                                                       *)
(***************************************************************************)
RECURSIVE Flatten(_)
Flatten(ss) == IF ss = <<>> THEN <<>> ELSE Head(ss) \o Flatten(Tail(ss))

RECURSIVE SetToSeq(_)
\* ids in ascending order (the order rows are returned in)
SetToSeq(S) ==
    IF S = {} THEN <<>>
    ELSE LET m == CHOOSE x \in S : \A y \in S : x <= y
         IN <<m>> \o SetToSeq(S \ {m})

SeqMap(f(_), s) == [i \in 1..Len(s) |-> f(s[i])]

(***************************************************************************)
(* Conflicts and the five built-in detection rules.  A rule returns <<>>   *)
(* (None) or a one-element sequence holding its Conflict.                  *)
(***************************************************************************)
Conflict(t, sev, ids) == [type |-> t, severity |-> sev, affected_peers |-> ids]

\* affected_ids = [peering_id] if not None, extended by the matches' ids
AffectedIds(p, matches) ==
    (IF p.id # NoId THEN <<p.id>> ELSE <<>>)
        \o SeqMap(LAMBDA q : q.id, SelectSeq(matches, LAMBDA q : q.id # NoId))

ASNCollisionRule(p, all) ==
    LET Hit(q) == /\ q.id # p.id
                  /\ q.peer_asn = p.peer_asn
                  /\ q.peer_ip # p.peer_ip
                  /\ q.status = "active"
        collisions == SelectSeq(all, Hit)
    IN IF collisions # <<>>
       THEN <<Conflict("asn_collision", "high", AffectedIds(p, collisions))>>
       ELSE <<>>

\* the RPKI rule is a stub: private ASN or not, it returns None
RPKIValidationRule(p, all) == <<>>

SessionOverlapRule(p, all) ==
    LET Hit(q) == /\ q.id # p.id
                  /\ q.device = p.device
                  /\ q.peer_ip = p.peer_ip
                  /\ q.peer_asn = p.peer_asn
        overlaps == SelectSeq(all, Hit)
    IN IF overlaps # <<>>
       THEN <<Conflict("session_overlap", "critical", AffectedIds(p, overlaps))>>
       ELSE <<>>

RoutingLoopRule(p, all) ==
    IF p.local_asn = p.peer_asn
    THEN <<Conflict("routing_loop", "critical", AffectedIds(p, <<>>))>>
    ELSE IF \E i \in 1..Len(p.as_path) : p.as_path[i] = p.local_asn
         THEN <<Conflict("routing_loop", "critical", AffectedIds(p, <<>>))>>
         ELSE <<>>

\* variant: the address rule without its duplicate-peer-address branch
PrefixOverlapRule_NoDuplicateBranch(p, all) ==
    IF ~IpParses(p.peer_ip)
    THEN <<Conflict("configuration_mismatch", "high", AffectedIds(p, <<>>))>>
    ELSE IF IsPrivate(p.peer_ip) /\ p.status = "active"
    THEN <<Conflict("configuration_mismatch", "medium", AffectedIds(p, <<>>))>>
    ELSE <<>>

PrefixOverlapRule(p, all) ==
    LET Hit(q) == /\ q.id # p.id
                  /\ q.device = p.device
                  /\ q.peer_ip = p.peer_ip
        overlaps == SelectSeq(all, Hit)
    IN IF ~IpParses(p.peer_ip)
       THEN <<Conflict("configuration_mismatch", "high", AffectedIds(p, <<>>))>>
       ELSE IF IsPrivate(p.peer_ip) /\ p.status = "active"
       THEN <<Conflict("configuration_mismatch", "medium", AffectedIds(p, <<>>))>>
       ELSE IF overlaps # <<>>
       THEN <<Conflict("session_overlap", "critical", AffectedIds(p, overlaps))>>
       ELSE <<>>

\* BGPConflictDetector.__init__: the registered rules, in registration order
DefaultRules == <<"asn_collision", "rpki", "session_overlap", "routing_loop", "prefix_overlap">>

RuleCheck(name, p, all) ==
    CASE name = "asn_collision" -> ASNCollisionRule(p, all)
      [] name = "rpki" -> RPKIValidationRule(p, all)
      [] name = "session_overlap" -> SessionOverlapRule(p, all)
      [] name = "routing_loop" -> RoutingLoopRule(p, all)
      [] name = "prefix_overlap" -> PrefixOverlapRule(p, all)

(***************************************************************************)
(* The evaluator's aggregation.  Every rule has settled with an outcome:   *)
(* it returned (a Conflict or None), raised, or hit its deadline.  The     *)
(* result loop skips timeouts and exceptions and appends every non-None    *)
(* return value, in the order of the gathered results.                     *)
(***************************************************************************)
Returned(r) == [kind |-> "returned", value |-> r]
Raised == [kind |-> "raised", value |-> <<>>]
TimedOut == [kind |-> "timeout", value |-> <<>>]

\* variant: an aggregation that gives up as soon as one rule did not return
Aggregate_FailFast(results) ==
    IF \E i \in 1..Len(results) : results[i].kind # "returned"
    THEN <<>>
    ELSE Flatten(SeqMap(LAMBDA o : o.value, results))

\* variant: an aggregation that lists the conflicts last rule first
Aggregate_Reversed(results) ==
    LET found == Flatten(SeqMap(LAMBDA o : IF o.kind = "returned" THEN o.value ELSE <<>>,
                                results))
    IN [k \in 1..Len(found) |-> found[Len(found) + 1 - k]]

Aggregate(results) ==
    Flatten(SeqMap(LAMBDA o : IF o.kind = "returned" THEN o.value ELSE <<>>, results))

\* detect_conflicts with the built-in rules, which neither raise nor suspend
detect_conflicts(p, all) ==
    Aggregate(SeqMap(LAMBDA name : Returned(RuleCheck(name, p, all)), DefaultRules))

(***************************************************************************)
(* State.                                                                  *)
(*   db    the committed bgp_peerings table; row i has id i                *)
(*   resp  the response of the request being answered ("none" when idle)   *)
(*   obs   what the last request asked for, kept for the properties        *)
(*   scope which fields the requests of this run vary: "session" (device,  *)
(*         address, ASN, status, policy), "timers" (hold_time, keepalive), *)
(*         "records" (name, ASN) or "stream" (ASN only)                    *)
(***************************************************************************)
VARIABLES db, resp, obs, scope

(***************************************************************************)
(* State of one detector with custom rules (core/conflict_detector.py).    *)
(*   rules    names of the registered rules, in registration order         *)
(*   plan     what each rule's check() does in the running call            *)
(*   task     each rule's wait_for task: "pending" or its outcome          *)
(*   clock    seconds since the running call launched its tasks            *)
(*   dpc      position of detect_conflicts: idle, gathering, returned      *)
(*   result   the list detect_conflicts returned                           *)
(*   handler  the mutation handler that called detect_conflicts            *)
(*   finished the rules of the running call in the order their tasks       *)
(*            settled                                                      *)
(***************************************************************************)
VARIABLES rules, plan, task, clock, dpc, result, handler, finished

(***************************************************************************)
(* State of one CircuitBreaker and its callers (utils/circuit_breaker.py). *)
(*   state, failure_count, success_count, last_failure_time,               *)
(*   failure_threshold, recovery_timeout    the object's fields            *)
(*   now      time.time(), in whole seconds                                *)
(*   cpc      position of each caller's call(): idle, calling (func is     *)
(*            awaited), open_error, returned, raised                       *)
(*   adm      the breaker's state when the caller's func was started       *)
(*   streak   failures recorded while closed since the breaker last        *)
(*            closed or last recorded a success                            *)
(***************************************************************************)
VARIABLES state, failure_count, success_count, last_failure_time,
          failure_threshold, recovery_timeout, now, cpc, adm, streak

(***************************************************************************)
(* State of the two remote-service clients (services/suzieq_client.py,     *)
(* services/ripe_ris_client.py).                                           *)
(*   sqb        the breaker the decorator puts around poll_bgp_sessions    *)
(*   rpb        RIPEClient.circuit_breaker                                 *)
(*   sq_streak, rp_streak   consecutive calls of the client whose remote   *)
(*              request failed                                             *)
(*   lastcall   the last client call: which client, whether the remote     *)
(*              service was contacted, how the call ended                  *)
(***************************************************************************)
VARIABLES sqb, rpb, sq_streak, rp_streak, lastcall

(***************************************************************************)
(* State of the stream consumer (streaming/bgp_consumer.py).               *)
(*   running, processed_count, error_count   BGPKafkaConsumer's fields     *)
(*   loop      position of run(): created, consuming (waiting for the next *)
(*             message), processing (inside process_message), ended        *)
(*             (stopped), failed (consume() raised) or cancelled           *)
(*   consumed  messages the loop has taken from the topic                  *)
(*   lastmsg   the last message taken and what its processing handed to    *)
(*             the rules                                                   *)
(***************************************************************************)
VARIABLES running, processed_count, error_count, loop, consumed, lastmsg

(***************************************************************************)
(* Units exercised on their own.                                           *)
(*   rulecall  one direct call of the rules (core/conflict_detector.py),   *)
(*             as the unit tests make it: the candidate, the snapshot and  *)
(*             what the rules returned                                     *)
(*   retry     one call of SuzieQClient._request_with_retry                *)
(*   anomaly   one call of AnomalyDetector.detect_anomalies                *)
(*   dispatch  the incident dispatcher: the call in progress and the calls *)
(*             that have ended                                             *)
(*   regcall   the last call of add_rule or remove_rule and the rule list  *)
(*             it found                                                    *)
(*   creates   the create requests in flight, each with its own session    *)
(***************************************************************************)
VARIABLES rulecall, retry, anomaly, dispatch, regcall, creates

catalogVars == <<db, resp, obs, scope>>
detVars == <<rules, plan, task, clock, dpc, result, handler, finished>>
cbVars == <<state, failure_count, success_count, last_failure_time,
            failure_threshold, recovery_timeout, now, cpc, adm, streak>>
clientVars == <<sqb, rpb, sq_streak, rp_streak, lastcall>>
consumerVars == <<running, processed_count, error_count, loop, consumed, lastmsg>>
unitVars == <<rulecall, retry, anomaly, dispatch, regcall, creates>>
extVars == <<clientVars, consumerVars, unitVars>>
nonClientVars == <<catalogVars, detVars, cbVars, consumerVars, unitVars>>
nonConsumerVars == <<catalogVars, detVars, cbVars, clientVars, unitVars>>
nonUnitVars == <<catalogVars, detVars, cbVars, clientVars, consumerVars>>
exceptRulecall == <<nonUnitVars, retry, anomaly, dispatch, regcall, creates>>
exceptRetry == <<nonUnitVars, rulecall, anomaly, dispatch, regcall, creates>>
exceptAnomaly == <<nonUnitVars, rulecall, retry, dispatch, regcall, creates>>
exceptDispatch == <<nonUnitVars, rulecall, retry, anomaly, regcall, creates>>
exceptRegcall == <<nonUnitVars, rulecall, retry, anomaly, dispatch, creates>>
exceptCreates == <<nonUnitVars, rulecall, retry, anomaly, dispatch, regcall>>
vars == <<db, resp, obs, scope, rules, plan, task, clock, dpc, result, handler,
          finished,
          state, failure_count, success_count, last_failure_time,
          failure_threshold, recovery_timeout, now, cpc, adm, streak,
          sqb, rpb, sq_streak, rp_streak, lastcall,
          running, processed_count, error_count, loop, consumed, lastmsg,
          rulecall, retry, anomaly, dispatch, regcall, creates>>
nonCatalogVars == <<detVars, cbVars, extVars, scope>>
nonDetectorVars == <<catalogVars, cbVars, extVars>>
nonBreakerVars == <<catalogVars, detVars, extVars>>

AsPaths == {<<>>, <<65002, 65000>>}

\* the values the requests of a run choose from, field by field
ScopedIps ==
    IF scope = "session" THEN SessionIps
    ELSE IF scope = "records" THEN PublicIps \cup OtherPublicIps
    ELSE PublicIps
ScopedAsns == IF scope = "session" THEN PeerAsns ELSE {65001, 65002}
ScopedStatuses == IF scope = "session" THEN Statuses ELSE {"pending"}
ScopedAsPaths == IF scope = "session" THEN AsPaths ELSE {<<>>}
Names == IF scope = "records" THEN {"p1", "p2"} ELSE {"p1"}
HoldTimes == IF scope = "timers" THEN {90, 180} ELSE {180}
Keepalives == IF scope = "timers" THEN {30, 60} ELSE {60}

\* BGPPeeringBase.validate_keepalive_against_hold_time: the draft is refused
\* when keepalive > hold_time / 3
KeepaliveFits(keepalive, hold_time) == ~(keepalive * 3 > hold_time)

\* BGPPeeringCreate after validation
Drafts == {d \in [name : Names, device : Devices, peer_ip : ScopedIps,
                  peer_asn : ScopedAsns, status : ScopedStatuses,
                  as_path : ScopedAsPaths, hold_time : HoldTimes,
                  keepalive : Keepalives] :
              KeepaliveFits(d.keepalive, d.hold_time)}

\* an optional field of a patch: <<>> when absent (or None), <<v>> when set
Opt(S) == {<<>>} \cup {<<v>> : v \in S}
Patched(old, opt) == IF opt = <<>> THEN old ELSE opt[1]

\* a field that the requests of this run never set when its values are not
\* varied (setting it would write the value it already has)
OptIf(varied, S) == IF varied THEN Opt(S) ELSE {<<>>}

\* BGPPeeringUpdate after validation; validate_keepalive_update refuses the
\* patch only when keepalive and hold_time are both given
Patches == {u \in [name : OptIf(scope = "records", Names),
                   device : OptIf(scope = "session", Devices),
                   peer_ip : OptIf(scope \in {"session", "records"}, ScopedIps),
                   peer_asn : Opt(ScopedAsns),
                   status : OptIf(scope = "session", ScopedStatuses),
                   as_path : OptIf(scope = "session", ScopedAsPaths),
                   hold_time : OptIf(scope = "timers", HoldTimes),
                   keepalive : OptIf(scope = "timers", Keepalives)] :
               (u.keepalive # <<>> /\ u.hold_time # <<>>)
                   => KeepaliveFits(u.keepalive[1], u.hold_time[1])}

\* the unvalidated updates dict of bulk-update
BulkUpdates == [name : OptIf(scope = "records", Names),
                device : OptIf(scope = "session", Devices),
                peer_ip : OptIf(scope = "session", ScopedIps \cup InvalidIps),
                peer_asn : Opt(ScopedAsns),
                status : OptIf(scope = "session", ScopedStatuses),
                hold_time : OptIf(scope = "timers", HoldTimes),
                keepalive : OptIf(scope = "timers", Keepalives),
                is_deleted : Opt({TRUE})]

\* BGPPeering(...) built from a draft; id stays None until the flush
NewPeering(d) ==
    [id |-> NoId, name |-> d.name, device |-> d.device, peer_ip |-> d.peer_ip,
     peer_asn |-> d.peer_asn, local_asn |-> LocalAsn, status |-> d.status,
     as_path |-> d.as_path, hold_time |-> d.hold_time, keepalive |-> d.keepalive,
     is_deleted |-> FALSE]

NoResp == [op |-> "none", status |-> "none", conflicts |-> <<>>]
Resp(op, st, cs) == [op |-> op, status |-> st, conflicts |-> cs]
NoObs == [clash |-> FALSE, batch_dup |-> FALSE, batch_len |-> 0, accepted |-> 0,
          deleted_input |-> FALSE, ids |-> {}, audited |-> FALSE]
\* a request that names the ids S
Named(S) == [NoObs EXCEPT !.ids = S]

\* log_audit_event adds the audit row to the request's session and calls
\* commit without awaiting it: the row becomes durable only if the handler
\* itself commits the session afterwards
AuditCommitted(logged_before_commit, commit_ok) == logged_before_commit /\ commit_ok

\* one call detect_conflicts(peering, all_peerings), and whether any record
\* handed to the rules by a sequence of such calls is soft-deleted
RuleInput(p, all) == [peering |-> p, all_peerings |-> all]
HasDeleted(inputs) ==
    \E k \in 1..Len(inputs) :
        \/ inputs[k].peering.is_deleted
        \/ \E j \in 1..Len(inputs[k].all_peerings) : inputs[k].all_peerings[j].is_deleted

\* select(BGPPeering).where(BGPPeering.is_deleted == False) over a table
NonDeleted(table) == SelectSeq(table, LAMBDA r : ~r.is_deleted)

\* the id is assigned when the row is inserted
WithId(r, i) == [r EXCEPT !.id = i]
InsertAll(table, rows) == table \o [i \in 1..Len(rows) |-> WithId(rows[i], Len(table) + i)]

Idle == resp.op = "none"

SameTriple(p, q) ==
    p.device = q.device /\ p.peer_ip = q.peer_ip /\ p.peer_asn = q.peer_asn

(***************************************************************************)
(* create_peering.  The snapshot is taken before the candidate exists; a   *)
(* non-empty conflict list raises 400 before db.add; a failing commit is   *)
(* rolled back and answered 500.                                           *)
(***************************************************************************)
create_peering(d) ==
    /\ Idle
    /\ UNCHANGED nonCatalogVars
    /\ Len(db) < MaxPeerings
    /\ LET all_peerings == NonDeleted(db)
           peering == NewPeering(d)
           conflicts == detect_conflicts(peering, all_peerings)
           clash == \E i \in 1..Len(db) : ~db[i].is_deleted /\ SameTriple(db[i], peering)
       IN \* the audit row is added after the commit, and no commit follows
          /\ obs' = [NoObs EXCEPT !.clash = clash,
                                  !.deleted_input =
                                      HasDeleted(<<RuleInput(peering, all_peerings)>>),
                                  !.audited = AuditCommitted(FALSE, TRUE)]
          /\ IF conflicts # <<>>
             THEN /\ resp' = Resp("create", "conflict", conflicts)
                  /\ db' = db
             ELSE \E commit_ok \in BOOLEAN :
                    IF commit_ok
                    THEN /\ db' = InsertAll(db, <<peering>>)
                         /\ resp' = Resp("create", "created", <<>>)
                    ELSE /\ db' = db
                         /\ resp' = Resp("create", "error", <<>>)

(***************************************************************************)
(* update_peering.  The row is changed in the session, the snapshot is     *)
(* read from the session (it holds the changed row), and only db.commit()  *)
(* makes the change durable: a 400 leaves the session to be closed, which  *)
(* rolls it back.                                                          *)
(***************************************************************************)
ApplyPatch(row, patch) ==
    [row EXCEPT !.name = Patched(@, patch.name),
                !.device = Patched(@, patch.device),
                !.peer_ip = Patched(@, patch.peer_ip),
                !.peer_asn = Patched(@, patch.peer_asn),
                !.status = Patched(@, patch.status),
                !.as_path = Patched(@, patch.as_path),
                !.hold_time = Patched(@, patch.hold_time),
                !.keepalive = Patched(@, patch.keepalive)]

\* what the session's transaction holds after the handler's writes
SessionAfterUpdate(table, id, patch) == [table EXCEPT ![id] = ApplyPatch(@, patch)]

\* the table once the request is over: the session's rows if it committed
\* variant: the session's rows reach the table whether or not it committed
Durable_Autocommit(table, session, committed) == session

Durable(table, session, committed) == IF committed THEN session ELSE table

\* a lookup that forgets the is_deleted filter
Found_IgnoresDeleted(id) == id \in 1..Len(db)

\* select(BGPPeering).where(BGPPeering.id == peering_id, BGPPeering.is_deleted == False)
Found(id) == id \in 1..Len(db) /\ ~db[id].is_deleted

update_peering(id, patch) ==
    /\ Idle
    /\ UNCHANGED nonCatalogVars
    /\ IF ~Found(id)
       THEN /\ resp' = Resp("update", "not_found", <<>>)
            /\ db' = db
            /\ obs' = Named({id})
       ELSE LET session == SessionAfterUpdate(db, id, patch)
                peering == session[id]
                all_peerings == NonDeleted(session)
                conflicts == detect_conflicts(peering, all_peerings)
                clash == \E i \in 1..Len(session) :
                            i # id /\ ~session[i].is_deleted /\ SameTriple(session[i], peering)
            IN \* the audit row is added after the commit, and no commit follows
               /\ obs' = [Named({id}) EXCEPT !.clash = clash,
                                             !.deleted_input =
                                                HasDeleted(<<RuleInput(peering, all_peerings)>>),
                                             !.audited = AuditCommitted(FALSE, TRUE)]
               /\ IF conflicts # <<>>
                  THEN /\ resp' = Resp("update", "conflict", conflicts)
                       /\ db' = Durable(db, session, FALSE)
                  ELSE \E commit_ok \in BOOLEAN :
                         /\ db' = Durable(db, session, commit_ok)
                         /\ resp' = Resp("update", IF commit_ok THEN "ok" ELSE "error", <<>>)

\* get_peering: a read of one non-deleted row
get_peering(id) ==
    /\ Idle
    /\ UNCHANGED nonCatalogVars
    /\ obs' = Named({id})
    /\ db' = db
    /\ resp' = Resp("get", IF Found(id) THEN "ok" ELSE "not_found", <<>>)

(***************************************************************************)
(* delete_peering: soft delete, status forced to disabled.                 *)
(***************************************************************************)
SoftDelete(row) == [row EXCEPT !.is_deleted = TRUE, !.status = "disabled"]

delete_peering(id) ==
    /\ Idle
    /\ UNCHANGED nonCatalogVars
    \* the audit row is added after the commit, and no commit follows
    /\ obs' = [Named({id}) EXCEPT !.audited = AuditCommitted(FALSE, TRUE)]
    /\ IF ~Found(id)
       THEN /\ resp' = Resp("delete", "not_found", <<>>)
            /\ db' = db
       ELSE \E commit_ok \in BOOLEAN :
              /\ db' = Durable(db, [db EXCEPT ![id] = SoftDelete(@)], commit_ok)
              /\ resp' = Resp("delete", IF commit_ok THEN "deleted" ELSE "error", <<>>)

(***************************************************************************)
(* bulk_create_peerings.  Each candidate is checked against                *)
(* all_peerings + created_peerings, where all_peerings has also been       *)
(* extended by the accepted candidates; none of them has an id before the  *)
(* commit.  A conflict raises out of the transaction block, which rolls    *)
(* the whole batch back.                                                   *)
(***************************************************************************)
RECURSIVE BulkCheck(_, _, _, _)
BulkCheck(batch, i, all_peerings, created_peerings) ==
    IF i > Len(batch)
    THEN [conflicts |-> <<>>, created |-> created_peerings]
    ELSE LET peering == NewPeering(batch[i])
             conflicts == detect_conflicts(peering, all_peerings \o created_peerings)
         IN IF conflicts # <<>>
            THEN [conflicts |-> conflicts, created |-> created_peerings]
            ELSE BulkCheck(batch, i + 1, Append(all_peerings, peering),
                           Append(created_peerings, peering))

\* variant: candidates accepted before a rejection stay inserted
BulkPersisted_Partial(table, created, rejected, commit_ok) ==
    IF ~commit_ok THEN table ELSE InsertAll(table, created)

\* rows of the table after the transaction block of bulk-create
BulkPersisted(table, created, rejected, commit_ok) ==
    IF rejected \/ ~commit_ok THEN table ELSE InsertAll(table, created)

BatchHasDuplicate(batch) ==
    \E i, j \in 1..Len(batch) : i < j /\ SameTriple(batch[i], batch[j])

bulk_create_peerings(batch) ==
    /\ Idle
    /\ UNCHANGED nonCatalogVars
    /\ IF Len(batch) = 0
       THEN /\ resp' = Resp("bulk_create", "bad_request", <<>>)
            /\ db' = db
            /\ obs' = NoObs
       ELSE LET r == BulkCheck(batch, 1, NonDeleted(db), <<>>)
                rejected == r.conflicts # <<>>
            IN /\ obs' = [NoObs EXCEPT !.batch_len = Len(batch),
                                       !.batch_dup = BatchHasDuplicate(batch),
                                       !.accepted = Len(r.created),
                                       !.deleted_input =
                                           HasDeleted(<<RuleInput(NewPeering(batch[1]),
                                                                  NonDeleted(db) \o r.created)>>)]
               /\ IF rejected
                  THEN /\ resp' = Resp("bulk_create", "conflict", r.conflicts)
                       /\ db' = BulkPersisted(db, r.created, TRUE, TRUE)
                  ELSE \E commit_ok \in BOOLEAN :
                         /\ db' = BulkPersisted(db, r.created, FALSE, commit_ok)
                         /\ resp' = Resp("bulk_create",
                                         IF commit_ok THEN "created" ELSE "error", <<>>)

(***************************************************************************)
(* bulk_update_peerings.  The updates dict is applied to every selected    *)
(* row in the session; every row is then checked against the other         *)
(* non-deleted rows of the session; the first conflict answers 400.        *)
(***************************************************************************)
ApplyUpdates(row, updates) ==
    [row EXCEPT !.name = Patched(@, updates.name),
                !.device = Patched(@, updates.device),
                !.peer_ip = Patched(@, updates.peer_ip),
                !.peer_asn = Patched(@, updates.peer_asn),
                !.status = Patched(@, updates.status),
                !.hold_time = Patched(@, updates.hold_time),
                !.keepalive = Patched(@, updates.keepalive),
                !.is_deleted = Patched(@, updates.is_deleted)]

SessionAfterBulkUpdate(table, ids, updates) ==
    [i \in 1..Len(table) |-> IF i \in ids THEN ApplyUpdates(table[i], updates) ELSE table[i]]

RECURSIVE FirstConflicts(_, _)
\* the conflicts of the first peering, in id order, that has any
FirstConflicts(idseq, session) ==
    IF idseq = <<>> THEN <<>>
    ELSE LET peering == session[Head(idseq)]
             others == SelectSeq(NonDeleted(session), LAMBDA q : q.id # peering.id)
             conflicts == detect_conflicts(peering, others)
         IN IF conflicts # <<>> THEN conflicts ELSE FirstConflicts(Tail(idseq), session)

RECURSIVE CheckedInputs(_, _)
\* the calls of detect_conflicts the loop makes before it raises or ends
CheckedInputs(idseq, session) ==
    IF idseq = <<>> THEN <<>>
    ELSE LET peering == session[Head(idseq)]
             others == SelectSeq(NonDeleted(session), LAMBDA q : q.id # peering.id)
         IN <<RuleInput(peering, others)>>
                \o (IF detect_conflicts(peering, others) # <<>>
                    THEN <<>>
                    ELSE CheckedInputs(Tail(idseq), session))

bulk_update_peerings(ids, updates) ==
    /\ Idle
    /\ UNCHANGED nonCatalogVars
    /\ IF ids = {}
       THEN /\ resp' = Resp("bulk_update", "bad_request", <<>>)
            /\ db' = db
            /\ obs' = NoObs
       ELSE IF \E id \in ids : ~Found(id)
       THEN /\ resp' = Resp("bulk_update", "not_found", <<>>)
            /\ db' = db
            /\ obs' = Named(ids)
       ELSE LET session == SessionAfterBulkUpdate(db, ids, updates)
                conflicts == FirstConflicts(SetToSeq(ids), session)
                seen == [Named(ids) EXCEPT !.deleted_input =
                            HasDeleted(CheckedInputs(SetToSeq(ids), session))]
            IN IF conflicts # <<>>
                  THEN /\ resp' = Resp("bulk_update", "conflict", conflicts)
                       /\ db' = Durable(db, session, FALSE)
                       /\ obs' = seen
                  ELSE \E commit_ok \in BOOLEAN :
                         \* the audit rows are added before the commit
                         /\ obs' = [seen EXCEPT !.audited = AuditCommitted(TRUE, commit_ok)]
                         /\ db' = Durable(db, session, commit_ok)
                         /\ resp' = Resp("bulk_update",
                                         IF commit_ok THEN "ok" ELSE "error", <<>>)

(***************************************************************************)
(* bulk_delete_peerings.                                                   *)
(***************************************************************************)
bulk_delete_peerings(ids) ==
    /\ Idle
    /\ UNCHANGED nonCatalogVars
    /\ IF ids = {}
       THEN /\ resp' = Resp("bulk_delete", "bad_request", <<>>)
            /\ db' = db
            /\ obs' = NoObs
       ELSE IF \E id \in ids : ~Found(id)
       THEN /\ resp' = Resp("bulk_delete", "not_found", <<>>)
            /\ db' = db
            /\ obs' = Named(ids)
       ELSE \E commit_ok \in BOOLEAN :
              \* each audit row is added inside the loop, before the commit
              /\ obs' = [Named(ids) EXCEPT !.audited = AuditCommitted(TRUE, commit_ok)]
              /\ db' = Durable(db, [i \in 1..Len(db) |->
                                      IF i \in ids THEN SoftDelete(db[i]) ELSE db[i]],
                               commit_ok)
              /\ resp' = Resp("bulk_delete", IF commit_ok THEN "deleted" ELSE "error", <<>>)

\* the response has been sent; the next request can be taken
Respond ==
    /\ ~Idle
    /\ UNCHANGED nonCatalogVars
    /\ resp' = NoResp
    /\ obs' = NoObs
    /\ db' = db

Min(a, b) == IF a < b THEN a ELSE b

CatalogIn(sc) ==
    /\ db = <<>>
    /\ resp = NoResp
    /\ obs = NoObs
    /\ scope = sc

CatalogInit == CatalogIn("session")

DetectorIdle ==
    /\ rules = <<>>
    /\ plan = <<>>
    /\ task = <<>>
    /\ clock = 0
    /\ dpc = "idle"
    /\ result = <<>>
    /\ handler = "idle"
    /\ finished = <<>>

MaxCallers == 2       \* concurrent callers of one breaker
DefaultFailureThreshold == 5
DefaultRecoveryTimeout == 60
NoTime == 0           \* last_failure_time is None
Callers == 1..MaxCallers

\* CircuitBreaker.__init__ with the default arguments, nobody calling
BreakerIdle ==
    /\ state = "closed"
    /\ failure_count = 0
    /\ success_count = 0
    /\ last_failure_time = NoTime
    /\ failure_threshold = DefaultFailureThreshold
    /\ recovery_timeout = DefaultRecoveryTimeout
    /\ now = 1
    /\ cpc = [c \in Callers |-> "idle"]
    /\ adm = [c \in Callers |-> "none"]
    /\ streak = 0

\* SuzieQClient: @circuit_breaker(failure_threshold=5, recovery_timeout=60.0);
\* RIPEClient.__init__: CircuitBreaker(failure_threshold=5, timeout=60)
NoCall == [client |-> "none", contacted |-> FALSE, outcome |-> "none"]

ClientsIdle ==
    /\ sqb = [state |-> "closed", failure_count |-> 0, success_count |-> 0,
              last_failure_time |-> NoTime]
    /\ rpb = [state |-> "closed", failure_count |-> 0, last_failure_time |-> NoTime]
    /\ sq_streak = 0
    /\ rp_streak = 0
    /\ lastcall = NoCall

NoMessage == [kind |-> "none", peer_ip |-> "", fails |-> FALSE, deleted_input |-> FALSE]

\* BGPKafkaConsumer.__init__
ConsumerIdle ==
    /\ running = FALSE
    /\ processed_count = 0
    /\ error_count = 0
    /\ loop = "created"
    /\ consumed = 0
    /\ lastmsg = NoMessage

NoRuleCall == [made |-> FALSE]
NoRetry == [pc |-> "idle", max_retries |-> 0, retry_delay |-> 0, attempt |-> 0,
            outcomes |-> <<>>, slept |-> <<>>]

NoDetection == [made |-> FALSE]
NoIncident == "none"
NoAlert == [entry |-> "none", oncall |-> FALSE, slack |-> FALSE, auto_remediate |-> FALSE,
            incident_outcome |-> "none", chat_outcome |-> "none",
            incident |-> NoIncident, chat_posted |-> FALSE, acknowledged |-> FALSE,
            raised |-> FALSE, returned |-> NoIncident]
NoDispatch == [pc |-> "idle", call |-> NoAlert, ended |-> {}]
NoRegCall == [op |-> "none", rule_name |-> 0, before |-> <<>>]
MaxRequests == 2
NoRequest == [pc |-> "idle", peering |-> <<>>, all_peerings |-> <<>>]
NoCreates == [r \in 1..MaxRequests |-> NoRequest]

\* no unit call has been made
UnitsIdle ==
    /\ rulecall = NoRuleCall
    /\ retry = NoRetry
    /\ anomaly = NoDetection
    /\ dispatch = NoDispatch
    /\ regcall = NoRegCall
    /\ creates = NoCreates

ExtIdle == ClientsIdle /\ ConsumerIdle /\ UnitsIdle

Init ==
    /\ CatalogInit
    /\ DetectorIdle
    /\ BreakerIdle
    /\ ExtIdle

Next ==
    \/ \E d \in Drafts : create_peering(d)
    \/ \E id \in 1..MaxPeerings, patch \in Patches : update_peering(id, patch)
    \/ \E id \in 1..MaxPeerings : get_peering(id)
    \/ \E id \in 1..MaxPeerings : delete_peering(id)
    \/ \E n \in 0..Min(MaxBatch, MaxPeerings - Len(db)) :
          \E batch \in [1..n -> Drafts] : bulk_create_peerings(batch)
    \/ \E ids \in SUBSET (1..MaxPeerings), updates \in BulkUpdates :
          bulk_update_peerings(ids, updates)
    \/ \E ids \in SUBSET (1..MaxPeerings) : bulk_delete_peerings(ids)
    \/ Respond

Spec == Init /\ [][Next]_vars

\* the same requests, varying the timers of the peerings
TimersInit ==
    /\ CatalogIn("timers")
    /\ DetectorIdle
    /\ BreakerIdle
    /\ ExtIdle

TimersSpec == TimersInit /\ [][Next]_vars

\* the same requests, varying the names of the peerings
RecordsInit ==
    /\ CatalogIn("records")
    /\ DetectorIdle
    /\ BreakerIdle
    /\ ExtIdle

RecordsSpec == RecordsInit /\ [][Next]_vars

(***************************************************************************)
(* detect_conflicts as a concurrent computation.  Every registered rule is *)
(* launched under asyncio.wait_for with its own deadline and the tasks are *)
(* gathered with return_exceptions=True.  A rule's check() returns a       *)
(* Conflict, returns None, raises, or stays suspended; a rule that has not *)
(* settled when its deadline passes is cancelled and yields TimeoutError.  *)
(***************************************************************************)
MaxRules == 3
RULE_TIMEOUT_SECONDS == 5

Behaviours == {"conflict", "none", "raise", "hang"}
Pending == [kind |-> "pending", value |-> <<>>]

\* the Conflict a custom rule reports carries the rule's name
RuleConflict(name) == Conflict("custom", "high", <<name>>)

\* the outcome of a check() that runs to its end
CheckOutcome(name, behaviour) ==
    CASE behaviour = "conflict" -> Returned(<<RuleConflict(name)>>)
      [] behaviour = "none" -> Returned(<<>>)
      [] behaviour = "raise" -> Raised

\* variant: a rule evaluation without a deadline
DeadlinePassed_Never(clk) == FALSE

\* asyncio.wait_for(..., timeout=RULE_TIMEOUT_SECONDS): the deadline has passed
DeadlinePassed(clk) == clk >= RULE_TIMEOUT_SECONDS

DetectorInit ==
    /\ CatalogInit
    /\ \E n \in 1..MaxRules : rules = [i \in 1..n |-> i]
    /\ plan = <<>>
    /\ task = <<>>
    /\ clock = 0
    /\ dpc = "idle"
    /\ result = <<>>
    /\ handler = "idle"
    /\ finished = <<>>
    /\ BreakerIdle
    /\ ExtIdle

\* a handler calls detect_conflicts: one wait_for task per registered rule
DetectStart(pl) ==
    /\ dpc = "idle"
    /\ handler = "idle"
    /\ plan' = pl
    /\ task' = [i \in 1..Len(rules) |-> Pending]
    /\ clock' = 0
    /\ dpc' = "gathering"
    /\ handler' = "detecting"
    /\ finished' = <<>>
    /\ UNCHANGED <<rules, result>>
    /\ UNCHANGED nonDetectorVars

RuleSettles(i) ==
    /\ dpc = "gathering"
    /\ task[i] = Pending
    /\ plan[i] # "hang"
    /\ ~DeadlinePassed(clock)
    /\ task' = [task EXCEPT ![i] = CheckOutcome(rules[i], plan[i])]
    /\ finished' = Append(finished, i)
    /\ UNCHANGED <<rules, plan, clock, dpc, result, handler>>
    /\ UNCHANGED nonDetectorVars

RuleTimesOut(i) ==
    /\ dpc = "gathering"
    /\ i \in 1..Len(task)
    /\ task[i] = Pending
    /\ DeadlinePassed(clock)
    /\ task' = [task EXCEPT ![i] = TimedOut]
    /\ finished' = Append(finished, i)
    /\ UNCHANGED <<rules, plan, clock, dpc, result, handler>>
    /\ UNCHANGED nonDetectorVars

\* a second passes while some task is still pending
Tick ==
    /\ dpc = "gathering"
    /\ \E i \in 1..Len(task) : task[i] = Pending
    /\ clock < RULE_TIMEOUT_SECONDS
    /\ clock' = clock + 1
    /\ UNCHANGED <<rules, plan, task, dpc, result, handler, finished>>
    /\ UNCHANGED nonDetectorVars

\* gather returns once every task has settled; the result loop aggregates
GatherReturns ==
    /\ dpc = "gathering"
    /\ \A i \in 1..Len(task) : task[i] # Pending
    /\ result' = Aggregate(task)
    /\ dpc' = "returned"
    /\ UNCHANGED <<rules, plan, task, clock, handler, finished>>
    /\ UNCHANGED nonDetectorVars

\* the calling handler goes on: 400 on conflicts, commit otherwise
HandlerFinishes ==
    /\ dpc = "returned"
    /\ handler = "detecting"
    /\ handler' = IF result # <<>> THEN "rejected" ELSE "committed"
    /\ UNCHANGED <<rules, plan, task, clock, dpc, result, finished>>
    /\ UNCHANGED nonDetectorVars

NextCall ==
    /\ handler \in {"rejected", "committed"}
    /\ plan' = <<>>
    /\ task' = <<>>
    /\ clock' = 0
    /\ dpc' = "idle"
    /\ result' = <<>>
    /\ handler' = "idle"
    /\ finished' = <<>>
    /\ UNCHANGED rules
    /\ UNCHANGED nonDetectorVars

DetectorNext ==
    \/ \E pl \in [1..Len(rules) -> Behaviours] : DetectStart(pl)
    \/ \E i \in 1..Len(rules) : RuleSettles(i)
    \/ \E i \in 1..Len(rules) : RuleTimesOut(i)
    \/ Tick
    \/ GatherReturns
    \/ HandlerFinishes
    \/ NextCall

DetectorSpec == DetectorInit /\ [][DetectorNext]_vars

\* the event loop's timers fire and ready coroutines are resumed
DetectorFairSpec ==
    /\ DetectorSpec
    /\ WF_vars(Tick)
    /\ \A i \in 1..MaxRules : WF_vars(RuleTimesOut(i))
    /\ WF_vars(GatherReturns)
    /\ WF_vars(HandlerFinishes)

(***************************************************************************)
(* The circuit breaker.  call() checks the state under the lock, awaits    *)
(* the wrapped function outside the lock, and records the outcome under    *)
(* the lock again.  No locked section awaits anything, so each one is one  *)
(* step; callers interleave only while their function is awaited.          *)
(***************************************************************************)
MaxTime == 7          \* the clock stops advancing here
MaxFailures == 6      \* failure_count stops growing here
FailureThresholds == {2, DefaultFailureThreshold}
RecoveryTimeouts == {2, 3}

Breaker == [state |-> state, failure_count |-> failure_count,
            success_count |-> success_count, last_failure_time |-> last_failure_time]

SetBreaker(b) ==
    /\ state' = b.state
    /\ failure_count' = b.failure_count
    /\ success_count' = b.success_count
    /\ last_failure_time' = b.last_failure_time

\* variant: the cooldown measured from the epoch, not from the last failure
CooldownElapsed_FromEpoch(t, last, timeout) == t >= timeout

\* call: last_failure_time and (time.time() - last_failure_time) >= recovery_timeout
CooldownElapsed(t, last, timeout) == last # NoTime /\ t - last >= timeout

\* variant: a success that leaves the failure count of a closed breaker alone
on_success_KeepsCount(b) ==
    IF b.state = "half_open"
    THEN [b EXCEPT !.state = "closed", !.failure_count = 0, !.success_count = 0]
    ELSE b

\* _on_success
on_success(b) ==
    IF b.state = "half_open"
    THEN IF b.success_count + 1 >= 1
         THEN [b EXCEPT !.state = "closed", !.failure_count = 0, !.success_count = 0]
         ELSE [b EXCEPT !.success_count = @ + 1]
    ELSE IF b.state = "closed"
    THEN [b EXCEPT !.failure_count = 0]
    ELSE b

\* variant: a breaker that opens only once the count has passed the threshold
on_failure_OpensLate(b, t, threshold) ==
    LET counted == [b EXCEPT !.failure_count = @ + 1, !.last_failure_time = t]
    IN IF b.state = "half_open"
       THEN [counted EXCEPT !.state = "open", !.success_count = 0]
       ELSE IF b.state = "closed" /\ counted.failure_count > threshold
       THEN [counted EXCEPT !.state = "open"]
       ELSE counted

\* _on_failure
on_failure(b, t, threshold) ==
    LET counted == [b EXCEPT !.failure_count = @ + 1, !.last_failure_time = t]
    IN IF b.state = "half_open"
       THEN [counted EXCEPT !.state = "open", !.success_count = 0]
       ELSE IF b.state = "closed" /\ counted.failure_count >= threshold
       THEN [counted EXCEPT !.state = "open"]
       ELSE counted

BreakerInit ==
    /\ CatalogInit
    /\ DetectorIdle
    /\ ExtIdle
    /\ state = "closed"
    /\ failure_count = 0
    /\ success_count = 0
    /\ last_failure_time = NoTime
    /\ failure_threshold \in FailureThresholds
    /\ recovery_timeout \in RecoveryTimeouts
    /\ now = 1
    /\ cpc = [c \in Callers |-> "idle"]
    /\ adm = [c \in Callers |-> "none"]
    /\ streak = 0

\* call, the locked check lets the caller through and func is started
CallAdmitted(c) ==
    /\ cpc[c] = "idle"
    /\ state = "open" => CooldownElapsed(now, last_failure_time, recovery_timeout)
    /\ state' = IF state = "open" THEN "half_open" ELSE state
    /\ success_count' = IF state = "open" THEN 0 ELSE success_count
    /\ cpc' = [cpc EXCEPT ![c] = "calling"]
    /\ adm' = [adm EXCEPT ![c] = state']
    /\ UNCHANGED <<failure_count, last_failure_time, failure_threshold,
                   recovery_timeout, now, streak, nonBreakerVars>>

\* call, the locked check raises CircuitBreakerOpenError
CallRejected(c) ==
    /\ cpc[c] = "idle"
    /\ state = "open"
    /\ ~CooldownElapsed(now, last_failure_time, recovery_timeout)
    /\ cpc' = [cpc EXCEPT ![c] = "open_error"]
    /\ UNCHANGED <<state, failure_count, success_count, last_failure_time,
                   failure_threshold, recovery_timeout, now, adm, streak,
                   nonBreakerVars>>

\* func returns and _on_success records it
CallSucceeds(c) ==
    /\ cpc[c] = "calling"
    /\ SetBreaker(on_success(Breaker))
    /\ streak' = IF state \in {"closed", "half_open"} THEN 0 ELSE streak
    /\ cpc' = [cpc EXCEPT ![c] = "returned"]
    /\ adm' = [adm EXCEPT ![c] = "none"]
    /\ UNCHANGED <<failure_threshold, recovery_timeout, now, nonBreakerVars>>

\* func raises an expected exception and _on_failure records it
CallFails(c) ==
    /\ cpc[c] = "calling"
    /\ failure_count < MaxFailures
    /\ SetBreaker(on_failure(Breaker, now, failure_threshold))
    /\ streak' = IF state = "closed" THEN streak + 1 ELSE streak
    /\ cpc' = [cpc EXCEPT ![c] = "raised"]
    /\ adm' = [adm EXCEPT ![c] = "none"]
    /\ UNCHANGED <<failure_threshold, recovery_timeout, now, nonBreakerVars>>

\* func raises something outside expected_exception: nothing is recorded
CallEscapes(c) ==
    /\ cpc[c] = "calling"
    /\ cpc' = [cpc EXCEPT ![c] = "raised"]
    /\ adm' = [adm EXCEPT ![c] = "none"]
    /\ UNCHANGED <<state, failure_count, success_count, last_failure_time,
                   failure_threshold, recovery_timeout, now, streak,
                   nonBreakerVars>>

\* the caller has its result or its exception and may call again
CallerDone(c) ==
    /\ cpc[c] \in {"open_error", "returned", "raised"}
    /\ cpc' = [cpc EXCEPT ![c] = "idle"]
    /\ UNCHANGED <<state, failure_count, success_count, last_failure_time,
                   failure_threshold, recovery_timeout, now, adm, streak,
                   nonBreakerVars>>

\* reset
reset ==
    /\ state # "closed" \/ failure_count # 0 \/ last_failure_time # NoTime
    /\ state' = "closed"
    /\ failure_count' = 0
    /\ success_count' = 0
    /\ last_failure_time' = NoTime
    /\ streak' = 0
    /\ UNCHANGED <<failure_threshold, recovery_timeout, now, cpc, adm,
                   nonBreakerVars>>

\* a second passes
TimePasses ==
    /\ now < MaxTime
    /\ now' = now + 1
    /\ UNCHANGED <<state, failure_count, success_count, last_failure_time,
                   failure_threshold, recovery_timeout, cpc, adm, streak,
                   nonBreakerVars>>

BreakerNext ==
    \/ \E c \in Callers : CallAdmitted(c)
    \/ \E c \in Callers : CallRejected(c)
    \/ \E c \in Callers : CallSucceeds(c)
    \/ \E c \in Callers : CallFails(c)
    \/ \E c \in Callers : CallEscapes(c)
    \/ \E c \in Callers : CallerDone(c)
    \/ reset
    \/ TimePasses

BreakerSpec == BreakerInit /\ [][BreakerNext]_vars

\* the breaker as the circuit_breaker decorator uses it: wrapper only calls
\* breaker.call, nothing in the repository calls reset
WrapperNext ==
    \/ \E c \in Callers : CallAdmitted(c)
    \/ \E c \in Callers : CallRejected(c)
    \/ \E c \in Callers : CallSucceeds(c)
    \/ \E c \in Callers : CallFails(c)
    \/ \E c \in Callers : CallEscapes(c)
    \/ \E c \in Callers : CallerDone(c)
    \/ TimePasses

WrapperSpec == BreakerInit /\ [][WrapperNext]_vars

(***************************************************************************)
(* The remote-service clients.  Calls of one client are made one after the *)
(* other; each call either reaches the remote service, which answers or    *)
(* fails, or is refused by the client's breaker.                           *)
(***************************************************************************)
MaxStreak == 6        \* consecutive failing calls counted per client

\* poll_bgp_sessions: the body catches every Exception of the request and
\* returns [], so the function the breaker wraps returns normally
poll_body(remote_ok) == "returned"

\* SuzieQClient.poll_bgp_sessions through the decorator's wrapper
poll_bgp_sessions(remote_ok) ==
    LET refused == sqb.state = "open"
                   /\ ~CooldownElapsed(now, sqb.last_failure_time, DefaultRecoveryTimeout)
        entered == IF sqb.state = "open"
                   THEN [sqb EXCEPT !.state = "half_open", !.success_count = 0]
                   ELSE sqb
        outcome == poll_body(remote_ok)
    IN /\ sq_streak < MaxStreak
       /\ IF refused
          THEN /\ sqb' = sqb
               /\ lastcall' = [client |-> "suzieq", contacted |-> FALSE,
                               outcome |-> "open_error"]
               /\ sq_streak' = sq_streak
          ELSE /\ sqb' = IF outcome = "returned"
                         THEN on_success(entered)
                         ELSE on_failure(entered, now, DefaultFailureThreshold)
               /\ lastcall' = [client |-> "suzieq", contacted |-> TRUE,
                               outcome |-> outcome]
               /\ sq_streak' = IF remote_ok THEN 0 ELSE sq_streak + 1
       /\ UNCHANGED <<rpb, rp_streak, nonClientVars>>

\* CircuitBreaker.call of ripe_ris_client.py with a function that returns
\* (func_ok) or raises: the breaker afterwards and how the call ended
RipeBreakerCall(b, t, func_ok) ==
    LET refused == b.state = "open"
                   /\ ~(b.last_failure_time # NoTime
                        /\ t - b.last_failure_time > DefaultRecoveryTimeout)
        entered == IF b.state = "open" THEN [b EXCEPT !.state = "half_open"] ELSE b
    IN IF refused
       THEN [breaker |-> b, outcome |-> "open_error"]
       ELSE IF func_ok
       THEN [breaker |-> IF entered.state = "half_open"
                         THEN [entered EXCEPT !.state = "closed", !.failure_count = 0]
                         ELSE entered,
             outcome |-> "returned"]
       ELSE LET counted == [entered EXCEPT !.failure_count = @ + 1,
                                           !.last_failure_time = t]
            IN [breaker |-> IF counted.failure_count >= DefaultFailureThreshold
                            THEN [counted EXCEPT !.state = "open"]
                            ELSE counted,
                outcome |-> "raised"]

\* RIPEClient.get_historical_data on a cache miss: the stream is read in the
\* executor; when that raises, circuit_breaker.call(lambda: None) is made
\* and the failure is re-raised
get_historical_data(remote_ok) ==
    LET tracked == RipeBreakerCall(rpb, now, TRUE)
    IN /\ rp_streak < MaxStreak
       /\ rpb' = IF remote_ok THEN rpb ELSE tracked.breaker
       /\ lastcall' = [client |-> "ripe", contacted |-> TRUE,
                       outcome |-> IF remote_ok THEN "returned" ELSE "raised"]
       /\ rp_streak' = IF remote_ok THEN 0 ELSE rp_streak + 1
       /\ UNCHANGED <<sqb, sq_streak, nonClientVars>>

ClientsInit ==
    /\ CatalogInit
    /\ DetectorIdle
    /\ BreakerIdle
    /\ ExtIdle

ClientsNext ==
    \/ \E remote_ok \in BOOLEAN : poll_bgp_sessions(remote_ok)
    \/ \E remote_ok \in BOOLEAN : get_historical_data(remote_ok)
    \/ TimePasses

ClientsSpec == ClientsInit /\ [][ClientsNext]_vars

(***************************************************************************)
(* The stream consumer.  The topic delivers raw messages; the consumer's   *)
(* value_deserializer decodes each one inside the consumer iterator, so    *)
(* the loop body only sees decoded values.  The catalog is read through a  *)
(* session of the consumer's own.                                          *)
(***************************************************************************)
MaxMessages == 3      \* messages taken from the topic

\* raw messages: undecodable bytes, an empty value, JSON that is not an
\* object (or whose timestamp cannot be converted), an update object without
\* peer or prefix, and a complete update; fails: processing raises
Messages ==
    {[kind |-> k, peer_ip |-> "", fails |-> FALSE] :
        k \in {"undecodable", "empty", "not_object", "missing_fields"}}
    \cup [kind : {"update"}, peer_ip : PublicIps, fails : BOOLEAN]

\* BGPKafkaConsumer.detect_conflicts: the peerings with the message's
\* peer_ip, each checked against all of them
StreamInputs(table, msg) ==
    LET peerings == SelectSeq(table, LAMBDA r : r.peer_ip = msg.peer_ip)
    IN [k \in 1..Len(peerings) |-> RuleInput(peerings[k], peerings)]

\* what the loop records of a message it took
Taken(msg, deleted) ==
    [kind |-> msg.kind, peer_ip |-> msg.peer_ip, fails |-> msg.fails,
     deleted_input |-> deleted]

\* run: start()
start ==
    /\ loop = "created"
    /\ running' = TRUE
    /\ loop' = "consuming"
    /\ UNCHANGED <<processed_count, error_count, consumed, lastmsg, nonConsumerVars>>

\* stop(), called by another task: running is cleared and the consumer is
\* closed.  A loop waiting for the next message ends at once; a loop that is
\* inside process_message ends when that message is done.
stop ==
    /\ loop \in {"consuming", "processing"}
    /\ running
    /\ running' = FALSE
    /\ loop' = IF loop = "consuming" THEN "ended" ELSE loop
    /\ UNCHANGED <<processed_count, error_count, consumed, lastmsg, nonConsumerVars>>

\* application shutdown.  lifespan never calls stop(): the task made by
\* start_kafka_consumer is cancelled with the event loop, CancelledError is
\* raised at the await the task is suspended on (no handler of the loop
\* catches it), and the finally of run() calls stop().
shutdown ==
    /\ loop \in {"consuming", "processing"}
    /\ loop' = "cancelled"
    /\ running' = FALSE
    /\ UNCHANGED <<processed_count, error_count, consumed, lastmsg, nonConsumerVars>>

\* consume: one turn of the async for loop, up to the end of the message or
\* to the first await of process_message (the catalog read)
consume(msg) ==
    /\ loop = "consuming"
    /\ running
    /\ consumed < MaxMessages
    /\ consumed' = consumed + 1
    /\ CASE msg.kind = "undecodable" ->
              \* the deserializer raises in the iterator, outside the inner
              \* try: the outer handler re-raises and run() stops the consumer
              /\ loop' = "failed"
              /\ running' = FALSE
              /\ lastmsg' = Taken(msg, FALSE)
              /\ UNCHANGED <<processed_count, error_count>>
         [] msg.kind = "empty" ->
              /\ lastmsg' = Taken(msg, FALSE)
              /\ UNCHANGED <<running, loop, processed_count, error_count>>
         [] msg.kind = "not_object" ->
              /\ error_count' = error_count + 1
              /\ lastmsg' = Taken(msg, FALSE)
              /\ UNCHANGED <<running, loop, processed_count>>
         [] msg.kind = "missing_fields" ->
              /\ processed_count' = processed_count + 1
              /\ lastmsg' = Taken(msg, FALSE)
              /\ UNCHANGED <<running, loop, error_count>>
         [] msg.kind = "update" ->
              /\ loop' = "processing"
              /\ lastmsg' = Taken(msg, FALSE)
              /\ UNCHANGED <<running, processed_count, error_count>>
    /\ UNCHANGED nonConsumerVars

\* process_message from its first await to its end; the next turn of the
\* loop finds the consumer closed if stop() was called meanwhile
process_message ==
    /\ loop = "processing"
    /\ loop' = IF running THEN "consuming" ELSE "ended"
    /\ lastmsg' = [lastmsg EXCEPT !.deleted_input = HasDeleted(StreamInputs(db, lastmsg))]
    /\ IF lastmsg.fails
       THEN \* raised after detect_conflicts returned, caught by process_message
            /\ error_count' = error_count + 1
            /\ UNCHANGED processed_count
       ELSE /\ processed_count' = processed_count + 1
            /\ UNCHANGED error_count
    /\ UNCHANGED <<running, consumed, nonConsumerVars>>

StreamInit ==
    /\ CatalogIn("stream")
    /\ DetectorIdle
    /\ BreakerIdle
    /\ ExtIdle

StreamNext ==
    \/ Next
    \/ start
    \/ stop
    \/ shutdown
    \/ \E msg \in Messages : consume(msg)
    \/ process_message

StreamSpec == StreamInit /\ [][StreamNext]_vars

(***************************************************************************)
(* Direct calls of the rules.  The inputs have the shapes the callers      *)
(* produce: stored records have distinct ids; a candidate that is stored   *)
(* (update) may be in the snapshot as the same object; records of a        *)
(* bulk-create batch that were accepted earlier are in the snapshot        *)
(* without an id, as is the candidate of a create or bulk-create.          *)
(***************************************************************************)
MaxSnapshot == 2      \* records in the snapshot

RuleAsns == {LocalAsn, 65001}
RuleStatuses == {"active", "pending"}

RuleRecords ==
    {NewPeering(d) : d \in [name : {"p1"}, device : Devices, peer_ip : ValidIps,
                            peer_asn : RuleAsns, status : RuleStatuses,
                            as_path : {<<>>}, hold_time : {180}, keepalive : {60}]}

Candidates == {WithId(r, i) : r \in RuleRecords, i \in {NoId} \cup 1..MaxSnapshot}

InputShape(p, all) ==
    /\ \A i, j \in 1..Len(all) :
          (i # j /\ all[i].id # NoId) => all[i].id # all[j].id
    /\ \A i \in 1..Len(all) :
          /\ all[i].id = NoId
                => /\ p.id = NoId
                   /\ \A j \in i..Len(all) : all[j].id = NoId
                   /\ detect_conflicts(all[i], SubSeq(all, 1, i - 1)) = <<>>
          /\ (all[i].id # NoId /\ all[i].id = p.id) => all[i] = p

Snapshots == UNION {[1..n -> Candidates] : n \in 0..MaxSnapshot}

\* rule.check(peering, all_peerings) and detector.detect_conflicts(peering, all_peerings)
check_rules(p, all) ==
    /\ ~rulecall.made
    /\ InputShape(p, all)
    /\ rulecall' = [made |-> TRUE, peering |-> p, all_peerings |-> all,
                    asn_collision |-> ASNCollisionRule(p, all),
                    conflicts |-> detect_conflicts(p, all)]
    /\ UNCHANGED exceptRulecall

RulesInit ==
    /\ CatalogInit
    /\ DetectorIdle
    /\ BreakerIdle
    /\ ExtIdle

RulesNext ==
    \E p \in Candidates, all \in Snapshots : check_rules(p, all)

RulesSpec == RulesInit /\ [][RulesNext]_vars

(***************************************************************************)
(* SuzieQClient._request_with_retry.  retry holds the position of the call *)
(* (pc), the loop variable attempt, the outcome of every request sent and  *)
(* every delay slept.                                                      *)
(***************************************************************************)
MaxRetries == 4         \* largest max_retries tried
DefaultMaxRetries == 3
RetryDelays == {1, 2, 3}   \* retry_delay, in seconds (1.0 by default)

\* the outcome of one client.request + raise_for_status: a response, an
\* httpx.RequestError or HTTPStatusError, or any other exception
RequestOutcomes == {"ok", "transient", "other"}

\* variant: the same delay before every retry
Backoff_Constant(retry_delay, attempt) == retry_delay

\* asyncio.sleep(self.retry_delay * (attempt + 1))
Backoff(retry_delay, attempt) == retry_delay * (attempt + 1)

request_starts(m, d) ==
    /\ retry.pc = "idle"
    /\ retry' = [NoRetry EXCEPT !.pc = "attempting", !.max_retries = m, !.retry_delay = d]
    /\ UNCHANGED exceptRetry

\* one turn of the for loop, up to the return, the raise or the sleep
request_attempt(outcome) ==
    /\ retry.pc = "attempting"
    /\ LET sent == [retry EXCEPT !.outcomes = Append(@, outcome)]
       IN retry' =
            CASE outcome = "ok" -> [sent EXCEPT !.pc = "returned"]
              [] outcome = "other" -> [sent EXCEPT !.pc = "escaped"]
              [] outcome = "transient" ->
                    IF retry.attempt < retry.max_retries - 1
                    THEN [sent EXCEPT !.pc = "sleeping",
                                      !.slept = Append(@, Backoff(retry.retry_delay,
                                                                  retry.attempt))]
                    ELSE [sent EXCEPT !.pc = "raised"]
    /\ UNCHANGED exceptRetry

\* the sleep ends and the loop takes its next value
request_wakes ==
    /\ retry.pc = "sleeping"
    /\ retry' = [retry EXCEPT !.pc = "attempting", !.attempt = @ + 1]
    /\ UNCHANGED exceptRetry

\* the caller has the response or the exception
request_done ==
    /\ retry.pc \in {"returned", "raised", "escaped"}
    /\ retry' = NoRetry
    /\ UNCHANGED exceptRetry

RetryInit ==
    /\ CatalogInit
    /\ DetectorIdle
    /\ BreakerIdle
    /\ ExtIdle

RetryNext ==
    \/ \E m \in 1..MaxRetries, d \in RetryDelays : request_starts(m, d)
    \/ \E outcome \in RequestOutcomes : request_attempt(outcome)
    \/ request_wakes
    \/ request_done

RetrySpec == RetryInit /\ [][RetryNext]_vars

(***************************************************************************)
(* Properties of the catalog.                                              *)
(***************************************************************************)
CountType(conflicts, t) == Len(SelectSeq(conflicts, LAMBDA c : c.type = t))
HasType(conflicts, t) == CountType(conflicts, t) > 0

C2_ConflictLeavesCatalogUnchanged ==
    [][resp'.status = "conflict" => db' = db]_vars

C2_Witness ==
    /\ resp.op = "update"
    /\ resp.status = "conflict"

ReportedBy(i) == task[i].kind = "returned" /\ task[i].value # <<>>

\* C6: detect_conflicts returns a list in every case; a rule that raised or
\* timed out contributes nothing to it, and the conflict of every rule that
\* returned one is in it.
C6_FailOpenAggregation ==
    dpc = "returned" =>
        /\ \A i \in 1..Len(task) :
              ReportedBy(i) => \E k \in 1..Len(result) : result[k] = task[i].value[1]
        /\ \A k \in 1..Len(result) :
              \E i \in 1..Len(task) : ReportedBy(i) /\ result[k] = RuleConflict(rules[i])
        /\ Len(result) = Cardinality({i \in 1..Len(task) : ReportedBy(i)})

C6_Witness ==
    /\ dpc = "returned"
    /\ \E i \in 1..Len(task) : task[i] = Raised
    /\ \E i \in 1..Len(task) : task[i] = TimedOut
    /\ result # <<>>

\* C7: a call of detect_conflicts always returns, no later than the rules'
\* 5-second deadline; a rule that never completes is timed out, the
\* conflicts of the rules that did complete are returned, and the handler
\* that called detection goes on to its end.
C7_DetectionSettles ==
    /\ [](dpc = "gathering" => clock <= RULE_TIMEOUT_SECONDS)
    /\ [](dpc = "returned" =>
            \A i \in 1..Len(task) :
                /\ plan[i] = "hang" => task[i] = TimedOut
                /\ ReportedBy(i) => \E k \in 1..Len(result) : result[k] = task[i].value[1])
    /\ (handler = "detecting") ~> (handler \in {"rejected", "committed"})

C7_Witness ==
    /\ handler = "rejected"
    /\ \E i \in 1..Len(task) : plan[i] = "hang" /\ task[i] = TimedOut
    /\ \E i \in 1..Len(task) : ReportedBy(i)

\* position of a rule name in the registered list
RuleIndex(name) == CHOOSE i \in 1..Len(rules) : rules[i] = name

\* C24: the list detect_conflicts returns holds at most one conflict per
\* registered rule, in registration order, whatever order the rules settled in.
C24_RegistrationOrder ==
    dpc = "returned" =>
        /\ Len(result) <= Len(rules)
        /\ \A k, l \in 1..Len(result) :
              k < l => RuleIndex(result[k].affected_peers[1])
                          < RuleIndex(result[l].affected_peers[1])

\* two rules reported a conflict and the later registered one settled first
C24_Witness ==
    /\ dpc = "returned"
    /\ \E a, b \in 1..Len(finished) :
          /\ a < b
          /\ finished[a] > finished[b]
          /\ ReportedBy(finished[a])
          /\ ReportedBy(finished[b])

(***************************************************************************)
(* Properties of the circuit breaker.                                      *)
(***************************************************************************)
Recorded(c, outcome) == cpc[c] = "calling" /\ cpc'[c] = outcome

\* C8: a closed breaker opens exactly on the failure that makes
\* failure_threshold consecutive recorded failures; until then it stays
\* closed, and a success recorded while closed puts the count back to zero.
C8_OpensAtThreshold ==
    [][state = "closed" =>
         /\ IF streak' >= failure_threshold
            THEN state' = "open" /\ streak' = failure_threshold
            ELSE state' = "closed"
         /\ \A c \in Callers : Recorded(c, "returned") => failure_count' = 0]_vars

C8_Witness ==
    /\ state = "open"
    /\ failure_threshold = DefaultFailureThreshold
    /\ streak = DefaultFailureThreshold
    /\ \E c \in Callers : cpc[c] = "raised"

\* C9: a call made while the breaker is open and less than recovery_timeout
\* has passed since the last failure ends in CircuitBreakerOpenError without
\* starting the wrapped function and without changing the breaker's state,
\* counters or failure time.
C9_OpenFailsFast ==
    [][\A c \in Callers :
         (/\ cpc[c] = "idle"
          /\ cpc'[c] # "idle"
          /\ state = "open"
          /\ now - last_failure_time < recovery_timeout)
         => /\ cpc'[c] = "open_error"
            /\ state' = state
            /\ failure_count' = failure_count
            /\ success_count' = success_count
            /\ last_failure_time' = last_failure_time]_vars

C9_Witness ==
    /\ state = "open"
    /\ now - last_failure_time < recovery_timeout
    /\ \E c \in Callers : cpc[c] = "open_error"

\* C10: at most one call whose function was started after the circuit
\* opened is in flight at any time: the probe is alone at the dependency.
C10_SingleProbe ==
    Cardinality({c \in Callers : cpc[c] = "calling" /\ adm[c] = "half_open"}) <= 1

\* C11 as stated: the call that was started when the breaker went (or was)
\* half-open decides: if it returns, the breaker is closed with failure_count
\* 0; if its failure is recorded, the breaker is open and the cooldown is
\* measured from that failure.
C11_ProbeDecides ==
    [][\A c \in Callers :
         (cpc[c] = "calling" /\ adm[c] = "half_open")
         => /\ cpc'[c] = "returned" => (state' = "closed" /\ failure_count' = 0)
            /\ (cpc'[c] = "raised" /\ failure_count' # failure_count)
                  => (state' = "open" /\ last_failure_time' = now)]_vars

(***************************************************************************)
(* Properties of the remote-service clients.                               *)
(***************************************************************************)
\* C12: once five consecutive calls of a client have failed against the
\* remote service, that client's circuit is open (so the next call is
\* refused without contacting the service).
C12_ClientCircuitOpens ==
    /\ sq_streak >= DefaultFailureThreshold => sqb.state = "open"
    /\ rp_streak >= DefaultFailureThreshold => rpb.state = "open"

(***************************************************************************)
(* Properties of rule inputs and of the stream consumer.                   *)
(***************************************************************************)
\* C13: no call of detect_conflicts, from a mutation handler or from the
\* stream consumer, is given a soft-deleted candidate or snapshot record.
C13_NoDeletedRuleInput ==
    /\ ~obs.deleted_input
    /\ ~lastmsg.deleted_input


(***************************************************************************)
(* Properties of the peering life cycle.                                   *)
(***************************************************************************)
\* C14: deleted is terminal.  From a state where peering id is soft-deleted,
\* no step changes any field of that record, and every get, update, delete,
\* bulk-update or bulk-delete request naming the id answers not_found.
C14_DeletedIsTerminal ==
    [][\A id \in 1..Len(db) :
          db[id].is_deleted
          => /\ Len(db') >= id
             /\ db'[id] = db[id]
             /\ (/\ resp'.op \in {"get", "update", "delete", "bulk_update", "bulk_delete"}
                 /\ id \in obs'.ids)
                => resp'.status = "not_found"]_vars

\* the catalog is full, one record is deleted, and a request naming it was refused
C14_Witness ==
    /\ Len(db) = MaxPeerings
    /\ \E id \in 1..Len(db) : db[id].is_deleted
    /\ \A id \in 1..Len(db) : ~db[id].is_deleted => db[id].status = "active"
    /\ resp.op = "bulk_update"
    /\ resp.status = "not_found"
    /\ \E id \in obs.ids : db[id].is_deleted


\* C15: every soft-deleted peering has status disabled.
C15_DeletedIsDisabled ==
    \A i \in 1..Len(db) : db[i].is_deleted => db[i].status = "disabled"


\* C16: the status of a stored peering changes only from pending to active,
\* from active to disabled, or to disabled in the step that soft-deletes it.
C16_StatusEdges ==
    [][\A i \in 1..Len(db) :
          (Len(db') >= i /\ db'[i].status # db[i].status)
          => \/ db[i].status = "pending" /\ db'[i].status = "active"
             \/ db[i].status = "active" /\ db'[i].status = "disabled"
             \/ ~db[i].is_deleted /\ db'[i].is_deleted /\ db'[i].status = "disabled"]_vars


(***************************************************************************)
(* Properties of the stored records.                                       *)
(***************************************************************************)
\* C17 (P1): every non-deleted peering with a positive hold_time has
\* keepalive * 3 <= hold_time.
C17_KeepaliveWithinHoldTime ==
    \A i \in 1..Len(db) :
        (~db[i].is_deleted /\ db[i].hold_time > 0)
        => db[i].keepalive * 3 <= db[i].hold_time


\* C18: no two non-deleted peerings have the same name.
C18_UniqueNames ==
    \A i, j \in 1..Len(db) :
        (i # j /\ ~db[i].is_deleted /\ ~db[j].is_deleted) => db[i].name # db[j].name


(***************************************************************************)
(* Properties of the audit trail.                                          *)
(***************************************************************************)
\* C19: after a successful create, update, delete, bulk-update or
\* bulk-delete, the audit row of the mutation is committed with it.
C19_AuditCommittedWithMutation ==
    (/\ resp.op \in {"create", "update", "delete", "bulk_update", "bulk_delete"}
     /\ resp.status \in {"created", "ok", "deleted"})
    => obs.audited


(***************************************************************************)
(* Properties of the stream consumer's loop.                               *)
(***************************************************************************)
\* C20: a message that is malformed (undecodable, not an update object, or
\* missing its fields) or whose processing raises is counted in error_count,
\* and the loop is still consuming after it.
C20_ErrorsAbsorbed ==
    [][/\ (/\ consumed' = consumed + 1
           /\ lastmsg'.kind \in {"undecodable", "not_object", "missing_fields"})
          => (/\ error_count' = error_count + 1
              /\ loop' = "consuming"
              /\ running')
       /\ (/\ loop = "processing"
           /\ lastmsg.fails
           /\ processed_count' + error_count' # processed_count + error_count)
          => (/\ error_count' = error_count + 1
              /\ running => loop' = "consuming")]_vars

\* C21: once running is cleared no message is pulled, and a loop that is
\* inside process_message leaves it only by finishing the message, after
\* which it exits if the signal was given.
C21_ShutdownDrains ==
    [][/\ ~running => consumed' = consumed
       /\ (loop = "processing" /\ loop' # "processing")
          => /\ processed_count' + error_count' = processed_count + error_count + 1
             /\ loop' = IF running THEN "consuming" ELSE "ended"]_vars


(***************************************************************************)
(* Properties of the rules.                                                *)
(***************************************************************************)
\* the records of the snapshot that are not the candidate itself
OtherRecords(p, all) == SelectSeq(all, LAMBDA q : ~(q.id # NoId /\ q.id = p.id))

\* the records the ASN-collision rule is meant to match
ActiveSameAsn(p, all) ==
    SelectSeq(OtherRecords(p, all),
              LAMBDA q : q.peer_asn = p.peer_asn /\ q.peer_ip # p.peer_ip
                         /\ q.status = "active")

C23_NoClashNoConflict ==
    rulecall.made
    => LET p == rulecall.peering
           others == OtherRecords(p, rulecall.all_peerings)
       IN (/\ \A i \in 1..Len(others) :
                 ~(others[i].device = p.device /\ others[i].peer_ip = p.peer_ip)
           /\ ActiveSameAsn(p, rulecall.all_peerings) = <<>>
           /\ p.local_asn # p.peer_asn
           /\ \A i \in 1..Len(p.as_path) : p.as_path[i] # p.local_asn)
          => rulecall.conflicts = <<>>


(***************************************************************************)
(* Properties of the retrying request.                                     *)
(***************************************************************************)
AllTransient(outcomes) == \A k \in 1..Len(outcomes) : outcomes[k] = "transient"

\* C25: a request is sent at most max_retries times in all, the delay slept
\* after the k-th failed attempt is k * retry_delay, the call fails only when
\* max_retries attempts have all failed with transient errors, and a call
\* that returns does so with the response of its last attempt, every earlier
\* attempt having failed.
C25_BoundedLinearRetry ==
    /\ Len(retry.outcomes) <= retry.max_retries
    /\ \A k \in 1..Len(retry.slept) : retry.slept[k] = k * retry.retry_delay
    /\ retry.pc = "raised"
          => /\ Len(retry.outcomes) = retry.max_retries
             /\ AllTransient(retry.outcomes)
             /\ Len(retry.slept) = retry.max_retries - 1
    /\ retry.pc = "returned"
          => /\ retry.outcomes[Len(retry.outcomes)] = "ok"
             /\ AllTransient(SubSeq(retry.outcomes, 1, Len(retry.outcomes) - 1))
    /\ (retry.pc \in {"attempting", "sleeping"}) => AllTransient(retry.outcomes)

\* the default three attempts have all failed, after sleeping one and then
\* two retry delays
C25_Witness ==
    /\ retry.pc = "raised"
    /\ retry.max_retries = DefaultMaxRetries
    /\ retry.slept = <<retry.retry_delay, 2 * retry.retry_delay>>


(***************************************************************************)
(* AnomalyDetector.detect_anomalies.  The metric values are integers; the  *)
(* forecast (yhat) comes from the fitted model and is an input here.  The  *)
(* standard deviation s of n residuals with sum S and sum of squares Q is  *)
(* kept as its square V / (n * (n - 1)) with V = n * Q - S * S, and each   *)
(* comparison with s is made on the squares.                               *)
(***************************************************************************)
MaxPoints == 22
MinPoints == 10
MaxWindow == 30
SigmaThreshold == 3

\* too short, shortest accepted, and long enough for a rolling window in
\* which a point can lie three standard deviations from the window's mean
Lengths == {MinPoints - 1, MinPoints, MinPoints + 1, MaxPoints}
Levels == {0, 1}
Dips == {-1, 0}
Spikes == {-4, 0, 4}
ForecastLevels == {10}
DipLengths == {0, MaxPoints \div 2, MaxPoints}

\* residuals of a metric at level a that dips to level b for d points after
\* point k, with one point at c
Series(len, k, d, a, b, j, c) ==
    [i \in 1..len |-> IF i = j THEN c
                      ELSE IF k < i /\ i <= k + d THEN b ELSE a]

Residuals ==
    {Series(len, k, d, a, b, j, c) : len \in Lengths, k \in 0..MaxPoints,
                                     d \in DipLengths, a \in Levels,
                                     b \in Dips, j \in 1..MaxPoints,
                                     c \in Spikes}

Forecasts(len) == {[i \in 1..len |-> f] : f \in ForecastLevels}

RECURSIVE SumOver(_, _, _)
SumOver(f, lo, hi) == IF lo > hi THEN 0 ELSE f[lo] + SumOver(f, lo + 1, hi)

Abs(x) == IF x < 0 THEN -x ELSE x

WindowSize(len) == Min(MaxWindow, len \div 2)

\* the points the centred rolling window of point i covers, or the whole
\* series where the window is incomplete (NaN filled with the overall value)
Window(len, i) ==
    LET w == WindowSize(len)
        hi == i + ((w - 1) \div 2)
        lo == hi - w + 1
    IN  IF lo >= 1 /\ hi <= len THEN [lo |-> lo, hi |-> hi]
        ELSE [lo |-> 1, hi |-> len]

Stats(residual, lo, hi) ==
    LET n == hi - lo + 1
        S == SumOver(residual, lo, hi)
        Q == SumOver([i \in DOMAIN residual |-> residual[i] * residual[i]], lo, hi)
    IN  [count |-> n, sum |-> S, var |-> [num |-> n * Q - S * S, den |-> n * (n - 1)]]

\* residual > mean + t * std or residual < mean - t * std
IsAnomaly(r, st) ==
    LET d == st.count * r - st.sum
    IN  /\ d # 0
        /\ d * d * (st.count - 1) > SigmaThreshold * SigmaThreshold * st.count * st.var.num

\* deviation / std >= k
RatioAtLeast(deviation, var, k) == deviation * deviation * var.den >= k * k * var.num

_calculate_severity(deviation, var) ==
    IF var.num = 0 THEN "medium"
    ELSE IF RatioAtLeast(deviation, var, 5) THEN "critical"
    ELSE IF RatioAtLeast(deviation, var, 4) THEN "high"
    ELSE IF RatioAtLeast(deviation, var, 3) THEN "medium"
    ELSE "low"

Detected(values, yhat) ==
    LET len == Len(values)
        residual == [i \in 1..len |-> values[i] - yhat[i]]
        row(i) == LET win == Window(len, i)
                      st == Stats(residual, win.lo, win.hi)
                  IN  [index |-> i, value |-> values[i], expected_value |-> yhat[i],
                       deviation |-> Abs(residual[i]),
                       severity |-> _calculate_severity(Abs(residual[i]), st.var),
                       residual_std |-> st.var,
                       is_anomaly |-> IsAnomaly(residual[i], st)]
    IN  SelectSeq([i \in 1..len |-> row(i)], LAMBDA a : a.is_anomaly)

detect_anomalies(values, yhat, fit_ok) ==
    /\ ~anomaly.made
    /\ anomaly' = [made |-> TRUE, values |-> values,
                   anomalies |-> IF Len(values) < MinPoints \/ ~fit_ok THEN <<>>
                                 ELSE Detected(values, yhat)]
    /\ UNCHANGED exceptAnomaly

AnomalyInit ==
    /\ CatalogInit
    /\ DetectorIdle
    /\ BreakerIdle
    /\ ExtIdle

\* one call per behaviour
AnomalyNext ==
    /\ ~anomaly.made
    /\ \E r \in Residuals, fit_ok \in BOOLEAN :
           \E yhat \in Forecasts(Len(r)) :
               detect_anomalies([i \in 1..Len(r) |-> yhat[i] + r[i]], yhat, fit_ok)

AnomalySpec == AnomalyInit /\ [][AnomalyNext]_vars

(***************************************************************************)
(* Properties of the anomaly detector.                                     *)
(***************************************************************************)
(* C26: every anomaly detect_anomalies returns with a standard deviation   *)
(* above zero has |value - expected_value| / sigma >= 3.                   *)
C26_ThreeSigma ==
    anomaly.made =>
        \A i \in 1..Len(anomaly.anomalies) :
            LET a == anomaly.anomalies[i]
            IN  a.residual_std.num > 0
                    => RatioAtLeast(Abs(a.value - a.expected_value), a.residual_std,
                                    SigmaThreshold)


(***************************************************************************)
(* The incident dispatcher: IncidentManager.handle_bgp_hijack and the      *)
(* POST /alerts route send_alert.  Each creates an incident in the on-call *)
(* system when a client is configured, then posts to the chat channel when *)
(* a notifier is configured.  The outcome of each HTTP request is an       *)
(* input.                                                                  *)
(***************************************************************************)
MaxDispatches == 2
HttpOutcomes == {"ok", "status_error", "connect_error"}
Entries == {"handle_bgp_hijack", "send_alert"}
IncidentId == "inc-1"

\* variant: a client whose failures propagate to its caller
create_incident_Propagates(outcome) ==
    IF outcome = "ok" THEN Returned(IncidentId) ELSE Raised

\* GrafanaOnCallClient.create_incident: any exception is logged and None is
\* returned
create_incident(outcome) ==
    IF outcome = "ok" THEN Returned(IncidentId) ELSE Returned(NoIncident)

\* the webhook accepted the message
Delivered(outcome) == outcome = "ok"

\* oncall.SlackNotifier.send_alert: True when posted, False on any exception
SlackNotifier_send_alert(outcome) == Returned(Delivered(outcome))

\* notifiers.SlackNotifier.send: status_code == 200, False on any exception
SlackNotifier_send(outcome) == Returned(Delivered(outcome))

\* the placeholder remediation
_auto_remediate_hijack == FALSE

Ended(call) == [pc |-> "idle", call |-> NoAlert, ended |-> dispatch.ended \cup {call}]

dispatch_starts(entry, oncall, slack, auto_remediate) ==
    /\ dispatch.pc = "idle"
    /\ Cardinality(dispatch.ended) < MaxDispatches
    /\ entry = "send_alert" => ~auto_remediate
    /\ dispatch' = [dispatch EXCEPT !.pc = "incident",
                        !.call = [NoAlert EXCEPT !.entry = entry, !.oncall = oncall,
                                      !.slack = slack, !.auto_remediate = auto_remediate]]
    /\ UNCHANGED exceptDispatch

\* the on-call channel; send_alert wraps the call in try / except Exception,
\* handle_bgp_hijack does not
dispatch_incident(outcome) ==
    /\ dispatch.pc = "incident"
    /\ LET call == dispatch.call
           r == create_incident(outcome)
       IN  IF ~call.oncall
           THEN /\ outcome = "ok"
                /\ dispatch' = [dispatch EXCEPT !.pc = "chat"]
           ELSE IF r.kind = "raised" /\ call.entry = "handle_bgp_hijack"
           THEN dispatch' = Ended([call EXCEPT !.incident_outcome = outcome,
                                        !.raised = TRUE])
           ELSE dispatch' = [dispatch EXCEPT !.pc = "chat",
                                 !.call.incident_outcome = outcome,
                                 !.call.incident = IF r.kind = "raised" THEN NoIncident
                                                   ELSE r.value]
    /\ UNCHANGED exceptDispatch

\* the chat channel
dispatch_chat(outcome) ==
    /\ dispatch.pc = "chat"
    /\ LET call == dispatch.call
           r == IF call.entry = "handle_bgp_hijack" THEN SlackNotifier_send_alert(outcome)
                ELSE SlackNotifier_send(outcome)
       IN  IF ~call.slack
           THEN /\ outcome = "ok"
                /\ dispatch' = [dispatch EXCEPT !.pc = "finish"]
           ELSE dispatch' = [dispatch EXCEPT !.pc = "finish",
                                 !.call.chat_outcome = outcome,
                                 !.call.chat_posted = r.value]
    /\ UNCHANGED exceptDispatch

\* auto-remediation and the return of handle_bgp_hijack; the 503 or the
\* response of send_alert
dispatch_returns ==
    /\ dispatch.pc = "finish"
    /\ LET call == dispatch.call
           remediated == call.auto_remediate /\ _auto_remediate_hijack
       IN  IF call.entry = "handle_bgp_hijack"
           THEN dispatch' = Ended([call EXCEPT
                                     !.acknowledged = remediated /\ call.incident # NoIncident,
                                     !.returned = call.incident])
           ELSE IF ~call.oncall /\ ~call.slack
           THEN dispatch' = Ended([call EXCEPT !.raised = TRUE])
           ELSE dispatch' = Ended([call EXCEPT !.returned = call.incident])
    /\ UNCHANGED exceptDispatch

DispatchInit ==
    /\ CatalogInit
    /\ DetectorIdle
    /\ BreakerIdle
    /\ ExtIdle

DispatchNext ==
    \/ \E entry \in Entries, oncall \in BOOLEAN, slack \in BOOLEAN, auto \in BOOLEAN :
           dispatch_starts(entry, oncall, slack, auto)
    \/ \E outcome \in HttpOutcomes : dispatch_incident(outcome)
    \/ \E outcome \in HttpOutcomes : dispatch_chat(outcome)
    \/ dispatch_returns

DispatchSpec == DispatchInit /\ [][DispatchNext]_vars

(***************************************************************************)
(* Properties of the incident dispatcher.                                  *)
(***************************************************************************)
(* C27: the two channels are independent: when creating the on-call        *)
(* incident fails the chat message is still sent, when sending the chat    *)
(* message fails the incident is still created and returned, and a failure *)
(* in a channel never raises out of the dispatcher.                        *)
C27_ChannelsIndependent ==
    \A call \in dispatch.ended :
        /\ (call.oncall /\ call.slack /\ call.incident_outcome # "ok")
               => /\ call.chat_outcome \in HttpOutcomes
                  /\ call.chat_posted = Delivered(call.chat_outcome)
        /\ (call.oncall /\ call.slack /\ call.incident_outcome = "ok"
                /\ call.chat_outcome # "ok")
               => call.returned = IncidentId
        /\ call.raised => (~call.oncall /\ ~call.slack)

C27_Witness ==
    /\ \E call \in dispatch.ended :
           /\ call.oncall /\ call.slack
           /\ call.incident_outcome \in HttpOutcomes \ {"ok"}
           /\ call.chat_posted
    /\ \E call \in dispatch.ended :
           /\ call.oncall /\ call.slack
           /\ call.chat_outcome \in HttpOutcomes \ {"ok"}
           /\ call.returned = IncidentId


(***************************************************************************)
(* BGPConflictDetector.add_rule and remove_rule.  A rule is its rule_name; *)
(* add_rule takes any rule, one whose name is registered included.         *)
(***************************************************************************)
MaxRegistered == 5
RuleNames == 1..(MaxRules + 1)

\* the state of a detect_conflicts call, which the registry leaves alone
callVars == <<plan, task, clock, dpc, result, handler, finished>>

add_rule(rule) ==
    /\ Len(rules) < MaxRegistered
    /\ rules' = Append(rules, rule)
    /\ regcall' = [op |-> "add_rule", rule_name |-> rule, before |-> rules]
    /\ UNCHANGED <<catalogVars, callVars, cbVars, clientVars, consumerVars,
                   rulecall, retry, anomaly, dispatch, creates>>

remove_rule(rule_name) ==
    /\ rules' = SelectSeq(rules, LAMBDA r : r # rule_name)
    /\ regcall' = [op |-> "remove_rule", rule_name |-> rule_name, before |-> rules]
    /\ UNCHANGED <<catalogVars, callVars, cbVars, clientVars, consumerVars,
                   rulecall, retry, anomaly, dispatch, creates>>

RegistryInit == DetectorInit

RegistryNext ==
    \/ \E rule \in RuleNames : add_rule(rule)
    \/ \E rule_name \in RuleNames : remove_rule(rule_name)

RegistrySpec == RegistryInit /\ [][RegistryNext]_vars

Registered(rule_name) == \E i \in 1..Len(rules) : rules[i] = rule_name

(***************************************************************************)
(* Properties of the rule registry.                                        *)
(***************************************************************************)
(* C28: add_rule followed by remove_rule with that rule's name restores    *)
(* the registered rule list to what it was before the add_rule, and        *)
(* remove_rule with a name that is not registered leaves the list          *)
(* unchanged.                                                              *)
C28_AddRemoveRestores ==
    [][regcall'.op = "remove_rule" =>
          /\ (regcall.op = "add_rule" /\ regcall.rule_name = regcall'.rule_name)
                 => rules' = regcall.before
          /\ ~Registered(regcall'.rule_name) => rules' = rules]_vars


(***************************************************************************)
(* create_peering as a concurrent computation.  Each request runs in its   *)
(* own database session and is suspended at each await: after the SELECT   *)
(* that reads the snapshot, after detect_conflicts, and at the commit.     *)
(* The table has no unique constraint over (device, peer_ip, peer_asn), so *)
(* the INSERT of one session is never refused because of another's row.    *)
(***************************************************************************)
Requests == 1..MaxRequests

\* await db.execute(select(...)): the rows committed so far
create_reads(r, d) ==
    /\ creates[r].pc = "idle"
    /\ creates' = [creates EXCEPT ![r] = [pc |-> "detecting", peering |-> NewPeering(d),
                                          all_peerings |-> NonDeleted(db)]]
    /\ UNCHANGED exceptCreates

\* await detector.detect_conflicts(peering, all_peerings), then the 400
create_detects(r) ==
    /\ creates[r].pc = "detecting"
    /\ creates' = [creates EXCEPT ![r].pc =
                       IF detect_conflicts(creates[r].peering, creates[r].all_peerings) # <<>>
                       THEN "rejected" ELSE "committing"]
    /\ UNCHANGED exceptCreates

\* db.add(peering); await db.commit(); the rollback and the 500 when it fails
create_commits(r, commit_ok) ==
    /\ creates[r].pc = "committing"
    /\ Len(db) < MaxPeerings
    /\ IF commit_ok
       THEN /\ db' = InsertAll(db, <<creates[r].peering>>)
            /\ creates' = [creates EXCEPT ![r].pc = "created",
                                          ![r].peering = WithId(@, Len(db) + 1)]
       ELSE /\ db' = db
            /\ creates' = [creates EXCEPT ![r].pc = "error"]
    /\ UNCHANGED <<resp, obs, scope, detVars, cbVars, clientVars, consumerVars,
                   rulecall, retry, anomaly, dispatch, regcall>>

ConcurrentInit ==
    /\ CatalogIn("records")
    /\ DetectorIdle
    /\ BreakerIdle
    /\ ExtIdle

ConcurrentNext ==
    \/ \E r \in Requests, d \in Drafts : create_reads(r, d)
    \/ \E r \in Requests : create_detects(r)
    \/ \E r \in Requests, commit_ok \in BOOLEAN : create_commits(r, commit_ok)

ConcurrentSpec == ConcurrentInit /\ [][ConcurrentNext]_vars

(***************************************************************************)
(* Properties of concurrent creates.                                       *)
(***************************************************************************)
(* C29: of two create requests for the same (device, peer_ip, peer_asn)    *)
(* triple that run concurrently, at most one is committed.                 *)
C29_AtMostOneCommitted ==
    \A r1, r2 \in Requests :
        (r1 # r2 /\ creates[r1].pc = "created" /\ creates[r2].pc = "created")
            => ~SameTriple(creates[r1].peering, creates[r2].peering)


(***************************************************************************)
(* Invariants of the circuit breaker.                                      *)
(***************************************************************************)
(* C30: in every reachable state of the breaker, whatever the order in     *)
(* which concurrent calls record their successes and failures, a closed    *)
(* breaker has failure_count < failure_threshold and an open breaker has a *)
(* last_failure_time recorded.                                             *)
C30_BreakerInvariant ==
    /\ state = "closed" => failure_count < failure_threshold
    /\ state = "open" => last_failure_time # NoTime

\* a failure recorded by a call that was in flight when the breaker opened
C30_Witness ==
    /\ state = "open"
    /\ failure_count > failure_threshold
    /\ last_failure_time # NoTime
    /\ \E c \in Callers : cpc[c] = "raised"
====
